---- MODULE Spec2Model ----
(***************************************************************************)
(* Model of teleproj (src/src/main.rs): a saved-path list kept in a config *)
(* file, with add / remove / list / resolve invocations and the match      *)
(* scoring used to resolve a query.                                        *)
(*                                                                         *)
(* Text is modelled as a sequence of one-character strings, a path as a    *)
(* sequence of components (each component a text), the config file as the  *)
(* sequence of stored paths it deserialises to, and the disk as the set of *)
(* paths that currently exist.                                             *)
(***************************************************************************)
EXTENDS Integers, Sequences, FiniteSets, TLC

VARIABLES
    file,     \* content of ~/.teleproj.toml: Config.paths, a sequence of paths
    disk,     \* paths that exist on disk
    out,      \* what the last invocation did: command, argument, output, exit code
    sc,       \* scoring harness: two project names, a query, their scores
    procs,    \* concurrent invocations: position, command, loaded Config, output
    lastSave  \* what the most recent save_config of a concurrent invocation wrote

vars == <<file, disk, out, sc, procs, lastSave>>

----------------------------------------------------------------------------
(* Bounds *)

MaxNameLen  == 5    \* longest generated project name (scoring harness)
MaxScoreQueryLen == 2  \* longest generated query (scoring harness)
MaxLongLen  == 51   \* longest query of the long-query family (scoring harness)
MaxQueryLen == 2    \* longest query text of a resolve invocation (resolver harness)
MaxArgLen   == 1    \* longest argument text of an invocation (sequential program)
MaxRuns     == 1    \* further invocations each concurrent process may start

----------------------------------------------------------------------------
(* Text *)

RECURSIVE Strings(_, _)
Strings(A, n) ==
    IF n = 0 THEN {<< >>}
    ELSE LET S == Strings(A, n - 1)
         IN  S \cup {Append(s, c) : s \in {t \in S : Len(t) = n - 1}, c \in A}

Rep(c, n) == [i \in 1..n |-> c]

\* char::to_lowercase on the characters the model uses
LowerChar(c) ==
    CASE c = "A" -> "a"
      [] c = "B" -> "b"
      [] c = "X" -> "x"
      [] OTHER   -> c

to_lowercase(s) == [i \in 1..Len(s) |-> LowerChar(s[i])]

starts_with(s, p) == Len(p) <= Len(s) /\ SubSeq(s, 1, Len(p)) = p

contains(s, p) == \E k \in 0..(Len(s) - Len(p)) : SubSeq(s, k + 1, k + Len(p)) = p

----------------------------------------------------------------------------
(* calculate_match_score *)

\* The for loop of lines 133-140: k is the position in project_lower, cur the
\* number of query characters consumed (current_char is query_lower[cur + 1],
\* or None when cur = Len(query_lower)), score the running score.
RECURSIVE FuzzyLoop(_, _, _, _, _)
FuzzyLoop(project_lower, query_lower, k, cur, score) ==
    IF k > Len(project_lower) THEN <<score, cur>>
    ELSE IF cur < Len(query_lower) /\ project_lower[k] = query_lower[cur + 1]
         THEN FuzzyLoop(project_lower, query_lower, k + 1, cur + 1, score + 1)
         ELSE FuzzyLoop(project_lower, query_lower, k + 1, cur, score)

FuzzyPartialCredit(project_lower, query_lower) ==
    FuzzyLoop(project_lower, query_lower, 1, 0, 0)[1]

\* lines 129-146
FuzzyScore(project_lower, query_lower) ==
    LET r == FuzzyLoop(project_lower, query_lower, 1, 0, 0)
    IN  IF r[2] = Len(query_lower) THEN r[1] ELSE 0

\* lines 113-147.  query.len() is the byte length; every character of the
\* model is one byte.  The i32 arithmetic stays far below 2^31 here.
calculate_match_score(project_name, query) ==
    LET project_lower == to_lowercase(project_name)
        query_lower   == to_lowercase(query)
    IN  IF project_lower = query_lower THEN 1000
        ELSE IF starts_with(project_lower, query_lower) THEN 500 + Len(query) * 10
        ELSE IF contains(project_lower, query_lower) THEN 100 + Len(query) * 5
        ELSE FuzzyScore(project_lower, query_lower)

----------------------------------------------------------------------------
(* Paths, the config file, program output *)

Dot     == <<".">>
Unknown == <<"u", "n", "k", "n", "o", "w", "n">>

\* fs::canonicalize on an absolute argument: "." components are dropped
RECURSIVE canonicalize(_)
canonicalize(path_str) ==
    IF path_str = << >> THEN << >>
    ELSE LET rest == canonicalize(Tail(path_str))
         IN  IF Head(path_str) = Dot THEN rest ELSE <<Head(path_str)>> \o rest

\* Path::new(path).exists()
is_valid_path(path_str, d) == canonicalize(path_str) \in d

\* the final component, "unknown" when there is none (the root directory)
get_project_name(path) == IF Len(path) = 0 THEN Unknown ELSE path[Len(path)]

\* The config file: absent, or holding the serialised Config.  Only
\* save_config writes it, so its content always deserialises.
NoFile == [exists |-> FALSE, paths |-> << >>]

load_config(f) == IF f.exists THEN f.paths ELSE << >>

MergingSave(config, f) ==
    [exists |-> TRUE,
     paths  |-> load_config(f) \o SelectSeq(config, LAMBDA p : \A i \in 1..Len(load_config(f)) : load_config(f)[i] # p)]

\* fs::write of the whole serialised Config over whatever the file holds (f)
save_config(config, f) == [exists |-> TRUE, paths |-> config]

Stored == load_config(file)

\* One printed line: what it says and the values formatted into it.
Line(tag, pos, name, index, path) ==
    [tag |-> tag, pos |-> pos, name |-> name, index |-> index, path |-> path]

PathLine(tag, path)  == Line(tag, -1, << >>, -1, path)
TextLine(tag, text)  == Line(tag, -1, text, -1, << >>)
IndexLine(tag, index) == Line(tag, -1, << >>, index, << >>)
PlainLine(tag)       == Line(tag, -1, << >>, -1, << >>)

\* What one invocation did: the file it leaves, its output, exit code, and
\* the number of config reads and writes it performed.
Result(f, stdout, stderr, code, reads, writes) ==
    [file |-> f, stdout |-> stdout, stderr |-> stderr, code |-> code,
     reads |-> reads, writes |-> writes]

\* str::parse::<usize>: an optional "+", then one or more decimal digits.
\* The texts of the model are far too short to overflow 64 bits.
IsDigit(c) == c \in {"0", "1", "2", "3", "4", "5", "6", "7", "8", "9"}

DigitVal(c) ==
    CASE c = "0" -> 0 [] c = "1" -> 1 [] c = "2" -> 2 [] c = "3" -> 3 [] c = "4" -> 4
      [] c = "5" -> 5 [] c = "6" -> 6 [] c = "7" -> 7 [] c = "8" -> 8 [] c = "9" -> 9

RECURSIVE DecimalValue(_, _)
DecimalValue(digits, acc) ==
    IF digits = << >> THEN acc
    ELSE DecimalValue(Tail(digits), acc * 10 + DigitVal(Head(digits)))

ParseUsize(s) ==
    LET digits == IF s # << >> /\ s[1] = "+" THEN Tail(s) ELSE s
        ok     == digits # << >> /\ \A i \in 1..Len(digits) : IsDigit(digits[i])
    IN  [ok |-> ok, val |-> IF ok THEN DecimalValue(digits, 0) ELSE 0]

----------------------------------------------------------------------------
(* add_path, remove_path_by_index, get_paths *)

InList(config, path) == \E i \in 1..Len(config) : config[i] = path

PushFront(config, path) == <<path>> \o config

\* Vec::push
Push(config, path) == Append(config, path)

\* Vec::remove(index), index counted from 0
VecRemove(config, index) ==
    SubSeq(config, 1, index) \o SubSeq(config, index + 2, Len(config))

\* lines 80-88: after load_config.  f is the file at the time of the save.
add_path_store(path_string, config, f) ==
    IF InList(config, path_string)
    THEN Result(f, <<PathLine("Path already exists", path_string)>>, << >>, 0, 1, 0)
    ELSE Result(save_config(Push(config, path_string), f),
                <<PathLine("Added path", path_string)>>, << >>, 0, 1, 1)

\* lines 68-89
add_path(path_str, f, d) ==
    IF ~is_valid_path(path_str, d)
    THEN Result(f, << >>, <<PathLine("Error: path does not exist", path_str)>>, 1, 0, 0)
    ELSE add_path_store(canonicalize(path_str), load_config(f), f)

\* lines 103-110: after load_config.  f is the file at the time of the save.
remove_store(index, config, f) ==
    IF index < Len(config)
    THEN Result(save_config(VecRemove(config, index), f),
                <<PathLine("Removed path", config[index + 1])>>, << >>, 0, 1, 1)
    ELSE Result(f, << >>, <<IndexLine("Error: index out of range", index)>>, 1, 1, 0)

\* lines 100-111
remove_path_by_index(index, f) == remove_store(index, load_config(f), f)

\* lines 203-212 of main
remove_command(text, f) ==
    LET parsed == ParseUsize(text)
    IN  IF parsed.ok THEN remove_path_by_index(parsed.val, f)
        ELSE Result(f, << >>, <<PlainLine("Error: Remove argument must be a valid number")>>, 1, 0, 0)

\* lines 91-98
get_paths(f, d) == SelectSeq(load_config(f), LAMBDA p : p \in d)

PruningList(f, d) ==
    LET paths == get_paths(f, d)
    IN  Result(save_config(paths, f),
               [i \in 1..Len(paths) |->
                   Line("entry", -1, get_project_name(paths[i]), i - 1, paths[i])],
               << >>, 0, 1, 1)

\* lines 214-226 of main
list_command(f, d) ==
    LET paths == get_paths(f, d)
    IN  IF paths = << >>
        THEN Result(f, <<PlainLine("No paths saved yet")>>, << >>, 0, 1, 0)
        ELSE Result(f,
                    <<PlainLine("Saved projects:")>> \o
                    [i \in 1..Len(paths) |->
                        Line("entry", -1, get_project_name(paths[i]), i - 1, paths[i])],
                    << >>, 0, 1, 0)

----------------------------------------------------------------------------
(* find_and_print_path *)

ShownLimit == 5   \* matches.iter().take(5)

\* lines 159-171: (index, path, score) of every path whose name scores above 0
Candidates(paths, query) ==
    SelectSeq([i \in 1..Len(paths) |->
                  [index |-> i - 1, path |-> paths[i],
                   score |-> calculate_match_score(get_project_name(paths[i]), query)]],
              LAMBDA m : m.score > 0)

InsertBeforeTies(sorted, m) ==
    LET k == Cardinality({j \in 1..Len(sorted) : sorted[j].score > m.score})
    IN  SubSeq(sorted, 1, k) \o <<m>> \o SubSeq(sorted, k + 1, Len(sorted))

\* Inserting m behind every element that does not sort after it keeps equal
\* scores in their original order, as the stable slice::sort_by does.
InsertByScore(sorted, m) ==
    LET k == Cardinality({j \in 1..Len(sorted) : sorted[j].score >= m.score})
    IN  SubSeq(sorted, 1, k) \o <<m>> \o SubSeq(sorted, k + 1, Len(sorted))

RECURSIVE SortPrefix(_, _)
SortPrefix(matches, n) ==
    IF n = 0 THEN << >> ELSE InsertByScore(SortPrefix(matches, n - 1), matches[n])

\* line 173: matches.sort_by(|a, b| b.2.cmp(&a.2)), descending and stable
sort_by_score(matches) == SortPrefix(matches, Len(matches))

Take(s, n) == SubSeq(s, 1, IF Len(s) < n THEN Len(s) ELSE n)

\* lines 159-192: the text match over the existence-filtered paths
resolve_text(paths, query, f) ==
    LET matches == sort_by_score(Candidates(paths, query))
    IN  IF Len(matches) = 0
        THEN Result(f, << >>, <<TextLine("Error: No project found matching", query)>>, 1, 1, 0)
        ELSE IF Len(matches) = 1
        THEN Result(f, <<PathLine("path", matches[1].path)>>, << >>, 0, 1, 0)
        ELSE LET shown == Take(matches, ShownLimit)
             IN  Result(f, << >>,
                        <<TextLine("Multiple projects match", query)>> \o
                        [i \in 1..Len(shown) |->
                            Line("choice", i - 1, get_project_name(shown[i].path),
                                 shown[i].index, << >>)] \o
                        <<PlainLine("Use the specific index number")>>,
                        1, 1, 0)

UnfilteredFind(query, f, d) ==
    LET paths == load_config(f)
        index == ParseUsize(query)
    IN  IF index.ok /\ index.val < Len(paths)
        THEN Result(f, <<PathLine("path", paths[index.val + 1])>>, << >>, 0, 1, 0)
        ELSE resolve_text(get_paths(f, d), query, f)

\* lines 149-193
find_and_print_path(query, f, d) ==
    LET paths == get_paths(f, d)
        index == ParseUsize(query)
    IN  IF index.ok /\ index.val < Len(paths)
        THEN Result(f, <<PathLine("path", paths[index.val + 1])>>, << >>, 0, 1, 0)
        ELSE resolve_text(paths, query, f)

----------------------------------------------------------------------------
(* main: one invocation of the program *)

None    == [some |-> FALSE, val |-> << >>]
Some(v) == [some |-> TRUE, val |-> v]

Ran(cmd, path, text, r) ==
    [file |-> r.file,
     out  |-> [cmd |-> cmd, path |-> path, text |-> text, stdout |-> r.stdout,
               stderr |-> r.stderr, code |-> r.code, reads |-> r.reads,
               writes |-> r.writes]]

NoOut == [cmd |-> "none", path |-> << >>, text |-> << >>, stdout |-> << >>,
          stderr |-> << >>, code |-> 0, reads |-> 0, writes |-> 0]

\* lines 195-234: the first option present decides what runs
main(args, f, d) ==
    IF args.add.some
    THEN Ran("add", args.add.val, << >>, add_path(args.add.val, f, d))
    ELSE IF args.remove.some
    THEN Ran("remove", << >>, args.remove.val, remove_command(args.remove.val, f))
    ELSE IF args.list
    THEN Ran("list", << >>, << >>, list_command(f, d))
    ELSE IF args.project.some
    THEN Ran("resolve", << >>, args.project.val,
             find_and_print_path(args.project.val, f, d))
    ELSE Ran("help", << >>, << >>,
             Result(f, <<PlainLine("Use --help for usage information")>>, << >>, 0, 0, 0))

\* The state an invocation leaves: the file it wrote (or left) and its output.
Ends(args) ==
    /\ file' = main(args, file, disk).file
    /\ out' = main(args, file, disk).out

----------------------------------------------------------------------------
(* The sequential program: invocations one after another, and the disk
   changing between them *)

Dir(c)   == <<c>>
Root     == << >>
PathA    == <<Dir("p"), <<"a", "b">>>>
PathB    == <<Dir("q"), <<"a", "b">>>>
PathC    == <<Dir("p"), <<"a", "b", "x">>>>
PathADot == <<Dir("p"), Dot, <<"a", "b">>>>

Removable == {PathA, PathB, PathC}
AddArgs   == {Root, PathA, PathB, PathC, PathADot}
ArgTexts  == Strings({"0", "1", "a", "+"}, MaxArgLen)
RepText   == <<"0">>

\* Options of lower priority than the one that runs: all absent, or all given.
Lower == {[remove |-> None, list |-> FALSE, project |-> None],
          [remove |-> Some(RepText), list |-> TRUE, project |-> Some(RepText)]}

AddInvocation ==
    /\ \E a \in AddArgs, w \in Lower :
          Ends([add |-> Some(a), remove |-> w.remove, list |-> w.list,
                project |-> w.project])
    /\ UNCHANGED <<disk, sc, procs, lastSave>>

RemoveInvocation ==
    /\ \E t \in ArgTexts, w \in Lower :
          Ends([add |-> None, remove |-> Some(t), list |-> w.list,
                project |-> w.project])
    /\ UNCHANGED <<disk, sc, procs, lastSave>>

ListInvocation ==
    /\ \E w \in Lower :
          Ends([add |-> None, remove |-> None, list |-> TRUE, project |-> w.project])
    /\ UNCHANGED <<disk, sc, procs, lastSave>>

ResolveInvocation ==
    /\ \E t \in ArgTexts :
          Ends([add |-> None, remove |-> None, list |-> FALSE, project |-> Some(t)])
    /\ UNCHANGED <<disk, sc, procs, lastSave>>

HelpInvocation ==
    /\ Ends([add |-> None, remove |-> None, list |-> FALSE, project |-> None])
    /\ UNCHANGED <<disk, sc, procs, lastSave>>

CreateDir ==
    /\ \E p \in Removable \ disk : disk' = disk \cup {p}
    /\ out' = NoOut
    /\ UNCHANGED <<file, sc, procs, lastSave>>

DeleteDir ==
    /\ \E p \in Removable \cap disk : disk' = disk \ {p}
    /\ out' = NoOut
    /\ UNCHANGED <<file, sc, procs, lastSave>>

NoProcs == << >>
NoSave  == [by |-> 0, cmd |-> "none", path |-> << >>, index |-> 0, loaded |-> << >>,
            onDisk |-> << >>]
NoScore == [names |-> << << >>, << >> >>, query |-> << >>, scores |-> <<0, 0>>,
            done |-> FALSE]

Init ==
    /\ file = NoFile
    /\ disk = {Root} \cup Removable
    /\ out = NoOut
    /\ sc = NoScore
    /\ procs = NoProcs
    /\ lastSave = NoSave

Next ==
    \/ AddInvocation
    \/ RemoveInvocation
    \/ ListInvocation
    \/ ResolveInvocation
    \/ HelpInvocation
    \/ CreateDir
    \/ DeleteDir

Spec == Init /\ [][Next]_vars

----------------------------------------------------------------------------
(* The resolver on larger saved lists *)

R1 == <<Dir("p"), <<"a", "b">>>>
R2 == <<Dir("q"), <<"a", "b">>>>
R3 == <<Dir("p"), <<"A", "b">>>>
R4 == <<Dir("p"), <<"a", "b", "x">>>>
R5 == <<Dir("p"), <<"x", "a", "b">>>>
R6 == <<Dir("p"), <<"a", "x", "b">>>>
R7 == <<Dir("p"), <<"1">>>>

ResolvePaths == {R1, R2, R3, R4, R5, R6, R7}
ResolveLists == {<<R1, R2, R3, R4, R5, R6, R7>>,
                 <<R7, R6, R5, R4, R3, R2, R1>>,
                 <<R4, R1, R6, R2, R7, R5, R3>>}
Queries == Strings({"a", "b", "A", "0", "1", "+"}, MaxQueryLen)

InitResolve ==
    /\ file \in {save_config(c, NoFile) : c \in ResolveLists}
    /\ disk \in SUBSET ResolvePaths
    /\ out = NoOut
    /\ sc = NoScore
    /\ procs = NoProcs
    /\ lastSave = NoSave

\* Each saved list is resolved or listed once.
ResolveQuery ==
    /\ out = NoOut
    /\ \E q \in Queries :
          Ends([add |-> None, remove |-> None, list |-> FALSE, project |-> Some(q)])
    /\ UNCHANGED <<disk, sc, procs, lastSave>>

ListLive ==
    /\ out = NoOut
    /\ Ends([add |-> None, remove |-> None, list |-> TRUE, project |-> None])
    /\ UNCHANGED <<disk, sc, procs, lastSave>>

NextResolve == ResolveQuery \/ ListLive

SpecResolve == InitResolve /\ [][NextResolve]_vars

----------------------------------------------------------------------------
(* The scoring function on bounded inputs *)

LongQueries == {Rep("a", n) : n \in (MaxLongLen - 3)..MaxLongLen}
LongNames   == LongQueries \cup {Append(q, "b") : q \in LongQueries}

ScoreNames   == Strings({"a", "b", "x"}, MaxNameLen) \cup LongNames
ScoreQueries == Strings({"a", "b", "A"}, MaxScoreQueryLen) \cup LongQueries

UpperChar(c) == CASE c = "a" -> "A" [] c = "b" -> "B" [] c = "x" -> "X" [] OTHER -> c

\* Second names built from the query: equal to it, equal up to case, starting
\* with it, containing it, and its reverse.
Variants(q) ==
    {q, [i \in 1..Len(q) |-> UpperChar(q[i])], Append(q, "b"), <<"x">> \o q,
     [i \in 1..Len(q) |-> q[Len(q) + 1 - i]]}

InitScore ==
    /\ file = NoFile
    /\ disk = {Root}
    /\ out = NoOut
    /\ \E n \in ScoreNames, q \in ScoreQueries : \E m \in Variants(q) :
          sc = [names |-> <<n, m>>, query |-> q, scores |-> <<0, 0>>, done |-> FALSE]
    /\ procs = NoProcs
    /\ lastSave = NoSave

ScoreBoth ==
    /\ ~sc.done
    /\ sc' = [sc EXCEPT !.scores = <<calculate_match_score(sc.names[1], sc.query),
                                     calculate_match_score(sc.names[2], sc.query)>>,
                        !.done = TRUE]
    /\ UNCHANGED <<file, disk, out, procs, lastSave>>

NextScore == ScoreBoth

SpecScore == InitScore /\ [][NextScore]_vars

----------------------------------------------------------------------------
(* Concurrent invocations on one config file.  An invocation checks its
   argument, loads the config, and then decides, saves and prints; nothing
   keeps another invocation from running between its load and its save. *)

Procs == {1, 2}

ConcAddArgs     == {PathA, PathB, PathC}
ConcRemoveTexts == {<<"0">>, <<"a">>}

Idle(runs) ==
    [pc |-> "idle", cmd |-> "none", path |-> << >>, index |-> 0, local |-> << >>,
     msg |-> "", code |-> 0, reads |-> 0, writes |-> 0, runs |-> runs]

InitConc ==
    /\ file = NoFile
    /\ disk = {Root, PathA, PathB}
    /\ out = NoOut
    /\ sc = NoScore
    /\ procs = [p \in Procs |-> Idle(0)]
    /\ lastSave = NoSave

\* add_path, lines 69-76: the argument is checked and canonicalised
BeginAdd(p) ==
    /\ procs[p].pc = "idle"
    /\ \E a \in ConcAddArgs :
          procs' = [procs EXCEPT ![p] =
              IF is_valid_path(a, disk)
              THEN [@ EXCEPT !.pc = "begun", !.cmd = "add", !.path = canonicalize(a)]
              ELSE [@ EXCEPT !.pc = "done", !.cmd = "add", !.path = a,
                             !.msg = add_path(a, file, disk).stderr[1].tag,
                             !.code = add_path(a, file, disk).code]]
    /\ UNCHANGED <<file, disk, out, sc, lastSave>>

\* main, lines 203-210: the remove argument is parsed
BeginRemove(p) ==
    /\ procs[p].pc = "idle"
    /\ \E t \in ConcRemoveTexts :
          procs' = [procs EXCEPT ![p] =
              IF ParseUsize(t).ok
              THEN [@ EXCEPT !.pc = "begun", !.cmd = "remove", !.index = ParseUsize(t).val]
              ELSE [@ EXCEPT !.pc = "done", !.cmd = "remove",
                             !.msg = remove_command(t, file).stderr[1].tag,
                             !.code = remove_command(t, file).code]]
    /\ UNCHANGED <<file, disk, out, sc, lastSave>>

\* load_config, lines 78 and 101
Load(p) ==
    /\ procs[p].pc = "begun"
    /\ procs' = [procs EXCEPT ![p] = [@ EXCEPT !.pc = "loaded", !.local = load_config(file),
                                                 !.reads = @ + 1]]
    /\ UNCHANGED <<file, disk, out, sc, lastSave>>

\* lines 80-88 and 103-110: decide on the loaded Config, save, print
Finish(p) ==
    /\ procs[p].pc = "loaded"
    /\ LET me == procs[p]
           r  == IF me.cmd = "add" THEN add_path_store(me.path, me.local, file)
                 ELSE remove_store(me.index, me.local, file)
       IN  /\ file' = r.file
           /\ procs' = [procs EXCEPT ![p] =
                  [@ EXCEPT !.pc = "done",
                            !.msg = IF r.code = 0 THEN r.stdout[1].tag ELSE r.stderr[1].tag,
                            !.code = r.code,
                            !.writes = @ + r.writes]]
           /\ lastSave' = IF r.writes > 0
                          THEN [by |-> p, cmd |-> me.cmd, path |-> me.path,
                                index |-> me.index, loaded |-> me.local,
                                onDisk |-> load_config(file)]
                          ELSE lastSave
    /\ UNCHANGED <<disk, out, sc>>

\* the process exits; the same user starts another invocation
Restart(p) ==
    /\ procs[p].pc = "done"
    /\ procs[p].runs < MaxRuns
    /\ procs' = [procs EXCEPT ![p] = Idle(procs[p].runs + 1)]
    /\ UNCHANGED <<file, disk, out, sc, lastSave>>

NextConc ==
    \E p \in Procs :
        \/ BeginAdd(p)
        \/ BeginRemove(p)
        \/ Load(p)
        \/ Finish(p)
        \/ Restart(p)

SpecConc == InitConc /\ [][NextConc]_vars

----------------------------------------------------------------------------
(* Properties *)

\* q is a subsequence of n: its characters occur in n in the same order
RECURSIVE IsSubsequence(_, _)
IsSubsequence(q, n) ==
    \/ q = << >>
    \/ /\ Len(q) <= Len(n)
       /\ \/ Head(q) = Head(n) /\ IsSubsequence(Tail(q), Tail(n))
          \/ IsSubsequence(q, Tail(n))

\* 4 exact, 3 prefix, 2 substring, 1 fuzzy subsequence, 0 no match
MatchClass(name, query) ==
    LET nl == to_lowercase(name)
        ql == to_lowercase(query)
    IN  IF nl = ql THEN 4
        ELSE IF starts_with(nl, ql) THEN 3
        ELSE IF contains(nl, ql) THEN 2
        ELSE IF IsSubsequence(ql, nl) THEN 1
        ELSE 0

Live == get_paths(file, disk)

NameAt(i) == get_project_name(Live[i])

ExactMatches(query) ==
    {i \in 1..Len(Live) : to_lowercase(NameAt(i)) = to_lowercase(query)}

\* C1: a non-empty, non-numeric query equal (ignoring case) to the name of
\* exactly one live saved path resolves to that path: the path is printed and
\* the exit code is 0, whatever the other names are.
C1_ExactNameResolves ==
    (/\ out.cmd = "resolve"
     /\ out.text # << >>
     /\ ~ParseUsize(out.text).ok
     /\ Cardinality(ExactMatches(out.text)) = 1)
    => \E i \in ExactMatches(out.text) :
          /\ out.code = 0
          /\ out.stdout = <<PathLine("path", Live[i])>>

\* C2: a query that parses as an integer that is no position of the live list
\* fails (exit code 1) and prints no path; it is never matched as text.
C2_NumericNeverTextMatched ==
    (/\ out.cmd = "resolve"
     /\ ParseUsize(out.text).ok
     /\ ParseUsize(out.text).val >= Len(Live))
    => /\ out.code = 1
       /\ out.stdout = << >>

\* C3: a query that parses as a position i of the live list prints exactly the
\* path at position i and exits 0, whatever any name scores against the query.
C3_ValidIndexIsDirect ==
    (/\ out.cmd = "resolve"
     /\ ParseUsize(out.text).ok
     /\ ParseUsize(out.text).val < Len(Live))
    => /\ out.code = 0
       /\ out.stdout = <<PathLine("path", Live[ParseUsize(out.text).val + 1])>>
       /\ out.stderr = << >>

\* the query "1" is a valid position, and the path named "1" sits elsewhere
C3_Witness ==
    /\ out.cmd = "resolve"
    /\ out.text = <<"1">>
    /\ Len(Live) > 1
    /\ NameAt(2) # <<"1">>
    /\ \E i \in 1..Len(Live) : NameAt(i) = <<"1">>
    /\ out.stdout = <<PathLine("path", Live[2])>>

\* C4: for one query, a name that matches exactly scores strictly above a name
\* that matches as a prefix, which scores strictly above a name that matches
\* as a substring, which scores strictly above a fuzzy subsequence match.
C4_ScoreOrder ==
    sc.done =>
        \A k \in 1..2, m \in 1..2 :
            (/\ MatchClass(sc.names[m], sc.query) >= 1
             /\ MatchClass(sc.names[k], sc.query) > MatchClass(sc.names[m], sc.query))
            => sc.scores[k] > sc.scores[m]

\* C7: a name that neither equals, starts with nor contains the query scores
\* the number of query characters when the lower-cased query is a subsequence
\* of the lower-cased name, and 0 otherwise.
C7_FuzzySubsequence ==
    sc.done =>
        \A k \in 1..2 :
            MatchClass(sc.names[k], sc.query) <= 1
            => sc.scores[k] =
                  IF IsSubsequence(to_lowercase(sc.query), to_lowercase(sc.names[k]))
                  THEN Len(sc.query) ELSE 0

\* query "ab" scores 2 on "xaxbx" and 0 on "ba"
C7_Witness ==
    /\ sc.done
    /\ sc.query = <<"a", "b">>
    /\ sc.names = << <<"x", "a", "x", "b", "x">>, <<"b", "a">> >>
    /\ sc.scores = <<2, 0>>

Ambiguous ==
    /\ out.cmd = "resolve"
    /\ out.code = 1
    /\ out.stderr # << >>
    /\ out.stderr[1].tag = "Multiple projects match"

Shown == SelectSeq(out.stderr, LAMBDA l : l.tag = "choice")

ScoreAt(index) == calculate_match_score(NameAt(index + 1), out.text)

\* C8: an ambiguous resolution shows at most 5 candidates; each has a score
\* above 0 and is shown with its project name and its index in the live list;
\* they are in descending score order, equal scores in ascending index order;
\* no candidate left out scores above a shown one.
C8_AmbiguousListing ==
    Ambiguous =>
        /\ Len(Shown) <= 5
        /\ \A j \in 1..Len(Shown) :
              /\ Shown[j].pos = j - 1
              /\ Shown[j].index \in 0..(Len(Live) - 1)
              /\ Shown[j].name = NameAt(Shown[j].index + 1)
              /\ ScoreAt(Shown[j].index) > 0
        /\ \A j \in 1..Len(Shown), k \in 1..Len(Shown) :
              j < k =>
                 \/ ScoreAt(Shown[j].index) > ScoreAt(Shown[k].index)
                 \/ /\ ScoreAt(Shown[j].index) = ScoreAt(Shown[k].index)
                    /\ Shown[j].index < Shown[k].index
        /\ \A i \in 0..(Len(Live) - 1) :
              (ScoreAt(i) > 0 /\ \A j \in 1..Len(Shown) : Shown[j].index # i)
              => \A j \in 1..Len(Shown) : ScoreAt(i) <= ScoreAt(Shown[j].index)

\* five candidates shown with a tie among them, a sixth left out
C8_Witness ==
    /\ Ambiguous
    /\ Len(Shown) = 5
    /\ \E i \in 0..(Len(Live) - 1) :
          ScoreAt(i) > 0 /\ \A j \in 1..Len(Shown) : Shown[j].index # i
    /\ \E j \in 1..4 : ScoreAt(Shown[j].index) = ScoreAt(Shown[j + 1].index)
    /\ \E j \in 1..4 : ScoreAt(Shown[j].index) > ScoreAt(Shown[j + 1].index)

----------------------------------------------------------------------------
(* Properties of the stored list *)

\* the paths a list invocation shows, in the order of their shown indices
Listed(f, d) ==
    LET entries == SelectSeq(list_command(f, d).stdout, LAMBDA l : l.tag = "entry")
    IN  [i \in 1..Len(entries) |-> entries[i].path]

\* s without its element at index (counted from 0)
Without(s, index) ==
    [i \in 1..(Len(s) - 1) |-> IF i <= index THEN s[i] ELSE s[i + 1]]

\* C5: after a remove of an index i that list shows, list shows what it showed
\* before with the entry at i gone: the entries before i unchanged, the later
\* ones moved down by one.
C5_RemoveShiftsListing ==
    [][(/\ out'.cmd = "remove"
        /\ ParseUsize(out'.text).ok
        /\ ParseUsize(out'.text).val < Len(Listed(file, disk)))
       => Listed(file', disk') = Without(Listed(file, disk), ParseUsize(out'.text).val)]_vars

NoDuplicates(s) == \A i \in 1..Len(s), j \in 1..Len(s) : i # j => s[i] # s[j]

PositionIn(s, p) == CHOOSE i \in 1..Len(s) : s[i] = p

\* entries stored before and after a step keep their relative order, and an
\* entry that is new comes last
KeepsInsertionOrder ==
    /\ \A i \in 1..Len(Stored), j \in 1..Len(Stored) :
          (i < j /\ InList(Stored', Stored[i]) /\ InList(Stored', Stored[j]))
          => PositionIn(Stored', Stored[i]) < PositionIn(Stored', Stored[j])
    /\ \A k \in 1..Len(Stored') :
          ~InList(Stored, Stored'[k]) => k = Len(Stored')

\* an add of an existing directory that is already stored
AddOfStored ==
    /\ out'.cmd = "add"
    /\ canonicalize(out'.path) \in disk
    /\ InList(Stored, canonicalize(out'.path))

LiveBefore(i) == Cardinality({k \in 1..(i - 1) : Stored[k] \in disk})

\* what list prints for the stored list and the disk of this state
ListsLiveInOrder(stdout) ==
    LET entries == SelectSeq(stdout, LAMBDA l : l.tag = "entry")
    IN  /\ Len(entries) = Cardinality({i \in 1..Len(Stored) : Stored[i] \in disk})
        /\ \A i \in 1..Len(Stored) :
              Stored[i] \in disk
              => /\ entries[LiveBefore(i) + 1].path = Stored[i]
                 /\ entries[LiveBefore(i) + 1].index = LiveBefore(i)
                 /\ entries[LiveBefore(i) + 1].name = get_project_name(Stored[i])

\* C10: list and resolve leave the config file as it is; list shows exactly
\* the stored paths that exist, in stored order, numbered from 0, so a path
\* that is missing stays stored and is shown again at its place once it
\* exists; only an add or a remove that succeeds writes the file, and an
\* invocation that fails leaves it unchanged.
C10_OnlyAddRemoveWrite ==
    [][/\ out'.cmd \in {"list", "resolve", "help", "none"}
             => file' = file /\ out'.writes = 0
       /\ out'.cmd = "list" => ListsLiveInOrder(out'.stdout)
       /\ out'.writes > 0 => out'.cmd \in {"add", "remove"} /\ out'.code = 0
       /\ out'.writes = 0 => file' = file
       /\ out'.code # 0 => file' = file /\ out'.writes = 0
       /\ out'.reads <= 1 /\ out'.writes <= 1]_vars

\* a list that hides the missing middle entry of three, which stays stored
C10_Witness ==
    /\ out.cmd = "list"
    /\ Len(Stored) = 3
    /\ Stored[2] \notin disk
    /\ Stored[1] \in disk /\ Stored[3] \in disk
    /\ SelectSeq(out.stdout, LAMBDA l : l.tag = "entry") =
          <<Line("entry", -1, get_project_name(Stored[1]), 0, Stored[1]),
            Line("entry", -1, get_project_name(Stored[3]), 1, Stored[3])>>

\* what the last saver meant to store: its loaded list with its change applied
IntendedWrite(s) ==
    IF s.cmd = "add" THEN s.loaded \o <<s.path>> ELSE Without(s.loaded, s.index)

\* C9: an invocation reads the config at most once and writes it at most
\* once; the stored list is exactly what the invocation that saved last wrote,
\* its own loaded list with its own change, whatever the file held then.
C9_LastWriterWins ==
    /\ \A p \in Procs : procs[p].reads <= 1 /\ procs[p].writes <= 1
    /\ lastSave.by = 0 => file = NoFile
    /\ lastSave.by # 0 => Stored = IntendedWrite(lastSave)

\* two first invocations both report "Added path", of different paths, and
\* one of the two paths is not stored
C9_Witness ==
    /\ \A p \in Procs :
          /\ procs[p].pc = "done"
          /\ procs[p].runs = 0
          /\ procs[p].msg = "Added path"
    /\ procs[1].path # procs[2].path
    /\ Len(Stored) = 1

====
